---- MODULE Spec2Model ----
(***************************************************************************)
(* Model of the web element change detector (detect-change.js and the      *)
(* collaborators it drives): the MonitoringWorkflow state machine, the     *)
(* string-matching error classifier, the browser/Chrome life cycle and the *)
(* shutdown signal handler.                                                *)
(*                                                                         *)
(* An error message is modelled by the set of classifier keywords it       *)
(* contains: categorizeError only ever asks message.includes(keyword).     *)
(* Each message is built as the code builds it: the keywords of the        *)
(* literal template, joined with the keywords of the interpolated url,     *)
(* file path or inner message.                                             *)
(*                                                                         *)
(* Spec is one run of detect-change.js.  Three further specifications      *)
(* leave that workflow as constructed and look at one part each:           *)
(* SpecCalls applies categorizeError, updateConfigValues and               *)
(* updateAndPersist to arguments drawn from bounded sets, SpecRuns lets    *)
(* several runs launch Chrome on one machine, and SpecPages follows the    *)
(* page handle of each processMonitoringTarget call.                       *)
(***************************************************************************)
EXTENDS Integers, Sequences, FiniteSets, TLC

(* ---------------- bounds ---------------- *)

NumTargets == 2

(* ---------------- values ---------------- *)

\* null / undefined: no text at all, distinct from the empty text <<>>
NULL == <<"null">>

\* a text value is a tuple of characters
RawTexts == { <<"a">>, <<"b">>, <<" ", "a">> }

InitialValue == <<"a">>

(* ---------------- error-handler.js ---------------- *)

ErrorTypes ==
  { "CONFIG_ERROR", "CHROME_ERROR", "BROWSER_ERROR", "PAGE_ERROR",
    "EXTRACTION_ERROR", "NOTIFICATION_ERROR", "PERSISTENCE_ERROR",
    "WORKFLOW_ERROR", "TARGET_ERROR" }

ErrorSeverity == { "CRITICAL", "HIGH", "MEDIUM", "LOW" }

\* variant: the navigation rule is tried before the connection rule
categorizeErrorNavigationFirst(msg, context) ==
  IF \/ "Configuration" \in msg
     \/ "Invalid JSON" \in msg
     \/ "Missing required field" \in msg
     \/ "Config load failed" \in msg
     \/ ("not found" \in msg /\ context.type = "config")
  THEN [type |-> "CONFIG_ERROR", severity |-> "CRITICAL"]
  ELSE IF "Chrome" \in msg /\ ("launch" \in msg \/ "port" \in msg \/ "debug" \in msg)
  THEN [type |-> "CHROME_ERROR", severity |-> "CRITICAL"]
  ELSE IF "Navigation" \in msg \/ "timeout" \in msg \/ "net::ERR" \in msg \/ "load" \in msg
  THEN [type |-> IF context.operation = "processMonitoringTarget"
                 THEN "TARGET_ERROR" ELSE "PAGE_ERROR",
        severity |-> "HIGH"]
  ELSE IF "connect" \in msg \/ "CDP" \in msg \/ "browser" \in msg
  THEN [type |-> "BROWSER_ERROR", severity |-> "CRITICAL"]
  ELSE IF "selector" \in msg \/ "element" \in msg \/ "textContent" \in msg \/ "extract" \in msg
  THEN [type |-> "EXTRACTION_ERROR", severity |-> "MEDIUM"]
  ELSE IF "Slack" \in msg \/ "webhook" \in msg \/ "notification" \in msg
  THEN [type |-> "NOTIFICATION_ERROR", severity |-> "MEDIUM"]
  ELSE IF "persist" \in msg \/ "write" \in msg \/ "permission" \in msg \/ "EACCES" \in msg
  THEN [type |-> "PERSISTENCE_ERROR", severity |-> "CRITICAL"]
  ELSE [type |-> "WORKFLOW_ERROR", severity |-> "HIGH"]

\* first matching rule wins; msg is the set of keywords the message contains
categorizeError(msg, context) ==
  IF \/ "Configuration" \in msg
     \/ "Invalid JSON" \in msg
     \/ "Missing required field" \in msg
     \/ "Config load failed" \in msg
     \/ ("not found" \in msg /\ context.type = "config")
  THEN [type |-> "CONFIG_ERROR", severity |-> "CRITICAL"]
  ELSE IF "Chrome" \in msg /\ ("launch" \in msg \/ "port" \in msg \/ "debug" \in msg)
  THEN [type |-> "CHROME_ERROR", severity |-> "CRITICAL"]
  ELSE IF "connect" \in msg \/ "CDP" \in msg \/ "browser" \in msg
  THEN [type |-> "BROWSER_ERROR", severity |-> "CRITICAL"]
  ELSE IF "Navigation" \in msg \/ "timeout" \in msg \/ "net::ERR" \in msg \/ "load" \in msg
  THEN [type |-> IF context.operation = "processMonitoringTarget"
                 THEN "TARGET_ERROR" ELSE "PAGE_ERROR",
        severity |-> "HIGH"]
  ELSE IF "selector" \in msg \/ "element" \in msg \/ "textContent" \in msg \/ "extract" \in msg
  THEN [type |-> "EXTRACTION_ERROR", severity |-> "MEDIUM"]
  ELSE IF "Slack" \in msg \/ "webhook" \in msg \/ "notification" \in msg
  THEN [type |-> "NOTIFICATION_ERROR", severity |-> "MEDIUM"]
  ELSE IF "persist" \in msg \/ "write" \in msg \/ "permission" \in msg \/ "EACCES" \in msg
  THEN [type |-> "PERSISTENCE_ERROR", severity |-> "CRITICAL"]
  ELSE [type |-> "WORKFLOW_ERROR", severity |-> "HIGH"]

\* the suggestion lists; each is built by push in the order given
getConfigErrorSuggestions(msg) ==
  <<"Verify the configuration file path is correct">>
  \o (IF "Invalid JSON" \in msg
      THEN <<"Use a JSON validator to check file syntax",
             "Ensure all strings are properly quoted">>
      ELSE <<>>)
  \o (IF "Missing required field" \in msg
      THEN <<"Ensure each entry has url, css_selector, and current_value fields">>
      ELSE <<>>)

getChromeErrorSuggestions(msg) ==
  (IF "port" \in msg
   THEN <<"Close any existing Chrome instances",
          "Check if another application is using port 9222">>
   ELSE <<>>)
  \o (IF "launch" \in msg
      THEN <<"Verify Chrome is installed and accessible",
             "Check system permissions for launching applications">>
      ELSE <<>>)

getBrowserErrorSuggestions(msg) ==
  <<"Wait a moment and try again",
    "Ensure Chrome launched successfully",
    "Check if Chrome debug port is accessible">>

getPageErrorSuggestions(msg) ==
  <<"Check your internet connection">>
  \o (IF "timeout" \in msg
      THEN <<"The website may be slow - try increasing timeout",
             "Verify the URL is correct and accessible">>
      ELSE <<>>)

getExtractionErrorSuggestions(msg) ==
  (IF "selector" \in msg
   THEN <<"Verify the CSS selector is correct",
          "Check if the page structure has changed",
          "Use browser developer tools to test the selector">>
   ELSE <<>>)
  \o (IF "timeout" \in msg
      THEN <<"The element may load dynamically - try increasing timeout">>
      ELSE <<>>)

getNotificationErrorSuggestions(msg) ==
  <<"Verify the Slack webhook URL is correct",
    "Check your internet connection",
    "Ensure the Slack workspace allows webhook notifications">>

getPersistenceErrorSuggestions(msg) ==
  (IF "permission" \in msg
   THEN <<"Check file and directory permissions",
          "Ensure you have write access to the configuration file">>
   ELSE <<>>)
  \o (IF "ENOSPC" \in msg THEN <<"Free up disk space">> ELSE <<>>)

\* the suggestions field of what categorizeError returns: each rule fills it
\* from the generator of its own category
suggestions(msg, context) ==
  LET type == categorizeError(msg, context).type
  IN CASE type = "CONFIG_ERROR"       -> getConfigErrorSuggestions(msg)
       [] type = "CHROME_ERROR"       -> getChromeErrorSuggestions(msg)
       [] type = "BROWSER_ERROR"      -> getBrowserErrorSuggestions(msg)
       [] type \in {"PAGE_ERROR", "TARGET_ERROR"} -> getPageErrorSuggestions(msg)
       [] type = "EXTRACTION_ERROR"   -> getExtractionErrorSuggestions(msg)
       [] type = "NOTIFICATION_ERROR" -> getNotificationErrorSuggestions(msg)
       [] type = "PERSISTENCE_ERROR"  -> getPersistenceErrorSuggestions(msg)
       [] OTHER -> <<"Check the logs for more details", "Try running the command again">>

\* variant: the stop decision is lost and the loop always goes on
shouldStopWorkflowNever(categorizedError) == FALSE

shouldStopWorkflow(categorizedError) == categorizedError.severity = "CRITICAL"

(* ---------------- messages raised by the collaborators ---------------- *)

\* config.js loadConfig / validateConfig
LoadFailures == { "ConfigNotFound", "InvalidJson", "EmptyTargets", "EmptySelector" }

LoadMessage(kind, path) ==
  CASE kind = "ConfigNotFound" -> {"Configuration", "not found"} \cup path
    [] kind = "InvalidJson"    -> {"Invalid JSON"} \cup path
    [] kind = "EmptyTargets"   -> {}
    [] kind = "EmptySelector"  -> {"selector"}

\* chrome-launcher launch / findChromePath / waitForDebugPort
LaunchFailures == { "PortInUse", "ChromeNotFoundDarwin", "ChromeNotFoundLinux" }

LaunchMessage(kind) ==
  CASE kind = "PortInUse"            -> {"Chrome", "port", "debug"}
    [] kind = "ChromeNotFoundDarwin" -> {"not found", "Chrome"}
    [] kind = "ChromeNotFoundLinux"  -> {"not found", "Chrome", "browser"}

\* browser-controller connect: `Failed to connect to Chrome: ${error.message}`
ConnectMessage == {"Chrome", "connect"}

\* browser-controller createPage on a torn-down controller
CreatePageMessage == {"connect"}

\* page-monitor handleNavigationError; url is the keyword set of the target's url
FetchFailures ==
  { "NavTimeout", "NetErr", "TimeoutOther", "SelectorWaitTimeout", "NoText", "BrowserClosed" }

\* the failures of one individual target that leave the browser itself alive
TargetOnlyFailures == FetchFailures \ { "BrowserClosed" }

handleNavigationError(kind, url) ==
  CASE kind = "NavTimeout"          -> {"Navigation", "timeout", "load"} \cup url
    [] kind = "NetErr"              -> {"net::ERR", "load"} \cup url
    [] kind = "TimeoutOther"        -> url
    [] kind = "SelectorWaitTimeout" -> {"selector"} \cup url
    [] kind = "NoText"              -> {"selector"} \cup url
    [] kind = "BrowserClosed"       -> {"selector", "browser"} \cup url

\* state-manager.js: every failure leaves updateAndPersist wrapped as
\* `Failed to update and persist configuration: ${inner}`
PersistFailures ==
  { "ReloadNotFound", "ReloadWebhook", "DirMissing", "FileNotWritable", "SaveENOSPC" }

validateWritePermissions(kind, path) ==
  {"permission"} \cup
  (CASE kind = "DirMissing"      -> path
     [] kind = "FileNotWritable" -> {"write", "permission"} \cup path)

persistConfig(kind, path) ==
  {"persist"} \cup
  (CASE kind \in {"DirMissing", "FileNotWritable"} -> validateWritePermissions(kind, path)
     [] kind = "SaveENOSPC" -> path)

updateAndPersistMessage(kind, path) ==
  {"persist"} \cup
  (CASE kind = "ReloadNotFound" -> {"Configuration", "not found"} \cup path
     [] kind = "ReloadWebhook"  -> {"webhook"}
     [] OTHER                   -> persistConfig(kind, path))

(* ---------------- change-detector.js ---------------- *)

RECURSIVE TrimLeft(_)
TrimLeft(s) == IF s # <<>> /\ Head(s) = " " THEN TrimLeft(Tail(s)) ELSE s

RECURSIVE TrimRight(_)
TrimRight(s) ==
  IF s # <<>> /\ s[Len(s)] = " " THEN TrimRight(SubSeq(s, 1, Len(s) - 1)) ELSE s

Trim(s) == TrimRight(TrimLeft(s))

\* a value that is a number and not a string: the tag, then its digits
Numbers == { <<"number", "1">> }

\* String(value): a string is itself, a number is its digits
String(value) ==
  IF value # <<>> /\ Head(value) = "number" THEN Tail(value) ELSE value

\* variant: a missing value is compared as the empty string
detectChangeNullAsEmpty(currentValue, storedValue) ==
  Trim(String(IF currentValue = NULL THEN <<>> ELSE currentValue))
    # Trim(String(IF storedValue = NULL THEN <<>> ELSE storedValue))

detectChange(currentValue, storedValue) ==
  IF currentValue = NULL /\ storedValue = NULL THEN FALSE
  ELSE IF currentValue = NULL \/ storedValue = NULL THEN TRUE
  ELSE Trim(String(currentValue)) # Trim(String(storedValue))

processEntry(entry, extractedValue) ==
  [entry |-> entry.id,
   hasChanged |-> detectChange(extractedValue, entry.current_value),
   failed |-> FALSE,
   newValue |-> extractedValue]

\* page-monitor.js extractTextContent returns textContent.trim()
extractTextContent(text) == Trim(text)

(* ---------------- state-manager.js ---------------- *)

\* changeMap.set(key, newValue): the last change with hasChanged for a key wins
updateConfigValues(targets, chs) ==
  [t \in DOMAIN targets |->
     LET hits == { k \in DOMAIN chs : chs[k].hasChanged /\ chs[k].entry = t }
     IN IF hits = {} THEN targets[t]
        ELSE chs[CHOOSE k \in hits : \A j \in hits : j <= k].newValue]

(* ---------------- state ---------------- *)

VARIABLES
  pc,             \* where MonitoringWorkflow.execute() is
  i,              \* targets the loop has finished with
  results,        \* session.results
  errors,         \* session.errors
  sessionErrors,  \* severities in the workflow's errorHandler.sessionErrors
  changes,        \* changes collected by processMonitoringTargets
  attempts,       \* completed sendChangeNotification calls
  inFlight,       \* a sendChangeNotification call is awaited
  persistCalls,   \* calls of stateManager.updateAndPersist
  file,           \* current_value of each target in the configuration file, <<>> once truncated
  critAt,         \* first target whose failure the loop classified CRITICAL, or 0
  critKind,       \* the failure that was, or "none"
  attempted,      \* targets processMonitoringTarget was called for
  abortSev,       \* severity given by execute()'s catch, or "none"
  abortAt,        \* the step execute() was in when its catch ran, or "none"
  settle,         \* what execute() does once finally is over
  cleanupCalls,   \* calls of MonitoringWorkflow.cleanup
  isConnected,    \* browserController is connected
  chromeProcess,  \* chromeLauncher.chromeProcess: "null" or "set"
  killed,         \* chromeProcess.killed
  chrome,         \* the Chrome process itself
  exitListeners,  \* terminate() calls waiting for the "exit" event
  graceTimers,    \* terminate() calls whose 5 second timer is pending
  expiredAlive,   \* a 5 second timer ran out while Chrome had not exited
  sigkill,        \* kill("SIGKILL") was called
  hpc,            \* where handleShutdown is
  isShuttingDown,
  signals,        \* signals received, in order
  outcome,        \* execute(): "pending", "resolved" or "rejected"
  endTime,        \* session.endTime is set
  exited,         \* process.exit was called
  exitCode,
  urls,           \* classifier keywords contained in each target's url
  configPath,     \* classifier keywords contained in session.configPath
  slackNotifier,  \* a webhook is configured
  call0,          \* a function call under study: its name and the arguments as passed
  call,           \* the same argument objects as they are now
  rets,           \* what each call so far returned
  lpc,            \* where each overlapping run is in launch / connect / cleanup
  runChrome,      \* each run's chromeLauncher.chromeProcess: "null" or "running"
  portOwner,      \* the run whose Chrome listens on the debug port, or 0
  userDataDir,    \* os.tmpdir()/chrome-web-detector: "absent" or "present"
  connectedTo,    \* the run whose Chrome each run's BrowserController talks to, or 0
  harmed,         \* <<run, what it did, run it did it to>>
  tpc,            \* where the target loop is, page handles in view
  tdone,          \* targets processMonitoringTarget has completed for
  page,           \* processMonitoringTarget's local `page`: 0 (null) or the page
  pages,          \* browserController.pages, the tracking set
  openPages,      \* pages open in the browser
  tried,          \* what the try block of each processMonitoringTarget produced
  outcomes,       \* what each processMonitoringTarget call returned or threw
  closeFailed,    \* pages whose page.close() failed (a warning was logged)
  bc,             \* a BrowserController: isConnected, browser, context, pages.size
  live,           \* CDP connections opened and not closed
  lastCall        \* the last BrowserController call: its result, the state before it

sessVars ==
  <<i, results, errors, sessionErrors, changes, attempts, inFlight,
    persistCalls, file, critAt, critKind, attempted, abortSev,
    abortAt>>

browserVars == <<isConnected, chromeProcess, killed, chrome, exitListeners, graceTimers>>

graceVars == <<expiredAlive, sigkill>>

sigVars == <<hpc, isShuttingDown, signals>>

endVars == <<outcome, endTime, exited, exitCode>>

inputVars == <<urls, configPath, slackNotifier>>

fnVars == <<call0, call, rets>>

runVars == <<lpc, runChrome, portOwner, userDataDir, connectedTo, harmed>>

pageVars == <<tpc, tdone, page, pages, openPages, tried, outcomes, closeFailed>>

controllerVars == <<bc, live, lastCall>>

auxVars == <<fnVars, runVars, pageVars, controllerVars>>

workflowVars ==
  <<pc, sessVars, settle, cleanupCalls, browserVars, graceVars, sigVars, endVars,
    inputVars>>

vars == <<workflowVars, auxVars>>

exceptCalls == <<workflowVars, runVars, pageVars, controllerVars>>

exceptRuns == <<workflowVars, fnVars, pageVars, controllerVars>>

exceptPages == <<workflowVars, fnVars, runVars, controllerVars>>

exceptController == <<workflowVars, fnVars, runVars, pageVars>>

Targets == 1 .. NumTargets

\* the targets array loadConfig returned
LoadedTargets == [t \in Targets |-> InitialValue]

Entry(t) == [id |-> t, current_value |-> LoadedTargets[t]]

ExitSuccess == 0

ExitFailure == 1

ExitForced == 2

ExitSIGINT == 130

ExitSIGTERM == 143

\* no function call is under study while the workflow runs
NoCall ==
  /\ call0 = [fn |-> "none"]
  /\ call = [fn |-> "none"]
  /\ rets = <<>>

\* a MonitoringWorkflow that was constructed and whose execute() was not called
NotStarted ==
  /\ pc = "start"
  /\ i = 0
  /\ results = <<>>
  /\ errors = <<>>
  /\ sessionErrors = <<>>
  /\ changes = <<>>
  /\ attempts = <<>>
  /\ inFlight = FALSE
  /\ persistCalls = 0
  /\ file = LoadedTargets
  /\ critAt = 0
  /\ critKind = "none"
  /\ attempted = {}
  /\ abortSev = "none"
  /\ abortAt = "none"
  /\ settle = "none"
  /\ cleanupCalls = 0
  /\ isConnected = FALSE
  /\ chromeProcess = "null"
  /\ killed = FALSE
  /\ chrome = "none"
  /\ exitListeners = {}
  /\ graceTimers = {}
  /\ expiredAlive = FALSE
  /\ sigkill = FALSE
  /\ hpc = "idle"
  /\ isShuttingDown = FALSE
  /\ signals = <<>>
  /\ outcome = "pending"
  /\ endTime = FALSE
  /\ exited = FALSE
  /\ exitCode = ExitSuccess

\* no second orchestrator process while the workflow runs
NoRuns ==
  /\ lpc = <<>>
  /\ runChrome = <<>>
  /\ portOwner = 0
  /\ userDataDir = "absent"
  /\ connectedTo = <<>>
  /\ harmed = {}

\* the target loop with page handles in view is not running
NoPages ==
  /\ tpc = "none"
  /\ tdone = 0
  /\ page = 0
  /\ pages = {}
  /\ openPages = {}
  /\ tried = <<>>
  /\ outcomes = <<>>
  /\ closeFailed = {}

\* no BrowserController is looked at on its own
NoController ==
  /\ bc = [isConnected |-> FALSE]
  /\ live = 0
  /\ lastCall = [op |-> "none"]

\* the workflow itself stays as constructed, with plain inputs
Parked ==
  /\ NotStarted
  /\ urls = [t \in Targets |-> {}]
  /\ configPath = {}
  /\ slackNotifier = FALSE

Init ==
  /\ NotStarted
  /\ NoCall
  /\ NoRuns
  /\ NoPages
  /\ NoController
  /\ urls \in [Targets -> { {}, {"browser"} }]
  /\ configPath \in { {}, {"load"} }
  /\ slackNotifier \in BOOLEAN

(* ---------------- browser-controller.js / chrome-launcher.js ---------------- *)

isConnectedToBrowser == isConnected

isRunning == chromeProcess = "set" /\ ~killed

\* a page operation can only succeed while nobody is tearing the browser down
BrowserUsable == isConnected /\ chrome = "running" /\ hpc # "h_disconnect"

(* ---------------- detect-change.js: leaving execute() ---------------- *)

CriticalCount(sev) == Cardinality({ k \in DOMAIN sev : sev[k] = "CRITICAL" })

\* variant: only the first of the two re-throw tests of the catch is made
rethrowsConfigChromeOnly(categorizedError) ==
  categorizedError.type \in {"CONFIG_ERROR", "CHROME_ERROR"}

\* execute()'s catch: which errors are thrown on to the caller
rethrows(categorizedError) ==
  \/ categorizedError.type \in {"CONFIG_ERROR", "CHROME_ERROR"}
  \/ shouldStopWorkflow(categorizedError)

\* variant: main() always reports success
mainExitCodeAlwaysSuccess(st, sev) == ExitSuccess

\* main(): process.exit(1) in its catch, else by summary.criticalErrors
mainExitCode(st, sev) ==
  IF st = "throw" THEN ExitFailure
  ELSE IF CriticalCount(sev) > 0 THEN ExitFailure ELSE ExitSuccess

\* variant: endTime is set at the end of the try block instead of in finally
sealedOnReturnOnly(st) == st = "return"

\* `this.session.endTime = new Date()` is the last statement of finally: it
\* runs after cleanup() whether execute() then returns or throws
sealed(st) == TRUE

\* end of execute()'s finally, then main(): summary and process.exit
Settle(st, sev) ==
  /\ endTime' = sealed(st)
  /\ outcome' = IF st = "throw" THEN "rejected" ELSE "resolved"
  /\ exited' = TRUE
  /\ exitCode' = mainExitCode(st, sev)

\* execute()'s finally: cleanup() up to its first suspension
Finally(st, sev) ==
  /\ cleanupCalls' = cleanupCalls + 1
  /\ settle' = st
  /\ IF isConnectedToBrowser
     THEN /\ pc' = "cl_disconnect"
          /\ UNCHANGED <<killed, exitListeners, graceTimers, endVars>>
     ELSE IF isRunning
     THEN /\ pc' = "cl_terminate"
          /\ killed' = TRUE
          /\ exitListeners' = exitListeners \cup {"wf"}
          /\ graceTimers' = graceTimers \cup {"wf"}
          /\ UNCHANGED endVars
     ELSE /\ pc' = "done"
          /\ UNCHANGED <<killed, exitListeners, graceTimers>>
          /\ Settle(st, sev)

\* variant: only critical errors are added to sessionErrors
handleErrorCriticalOnly(sev, cat) ==
  IF cat.severity = "CRITICAL" THEN Append(sev, cat.severity) ELSE sev

\* errorHandler.handleError: this.sessionErrors.push(errorRecord), of which the
\* severity is kept
handleError(sev, cat) == Append(sev, cat.severity)

\* errorHandler.getErrorStats(): the counts by severity and the total
getErrorStats(sev) ==
  LET count(s) == Cardinality({ k \in DOMAIN sev : sev[k] = s })
  IN [totalErrors |-> Len(sev),
      criticalErrors |-> count("CRITICAL"),
      highErrors |-> count("HIGH"),
      mediumErrors |-> count("MEDIUM"),
      lowErrors |-> count("LOW")]

\* execute()'s catch followed by its finally
ExecuteCatch(msg, errs, sev) ==
  LET cat == categorizeError(msg, [type |-> "workflow", operation |-> "execute"])
      sev2 == handleError(sev, cat)
  IN /\ errors' = Append(errs, [type |-> cat.type, severity |-> cat.severity,
                                stage |-> "execute"])
     /\ sessionErrors' = sev2
     /\ abortSev' = cat.severity
     /\ abortAt' = pc
     /\ Finally(IF rethrows(cat) THEN "throw" ELSE "return", sev2)

Running == ~exited

(* ---------------- detect-change.js: execute() ---------------- *)

\* main(): cli.run() and initialize() are over, execute() calls loadConfig
Initialize ==
  /\ Running /\ UNCHANGED <<graceVars, auxVars>> /\ pc = "start"
  /\ pc' = "loading"
  /\ UNCHANGED <<sessVars, settle, cleanupCalls, browserVars, sigVars, endVars, inputVars>>

LoadOk ==
  /\ Running /\ UNCHANGED <<graceVars, auxVars>> /\ pc = "loading"
  /\ pc' = "launching"
  /\ UNCHANGED <<sessVars, settle, cleanupCalls, browserVars, sigVars, endVars, inputVars>>

LoadFail ==
  /\ Running /\ UNCHANGED <<graceVars, auxVars>> /\ pc = "loading"
  /\ \E kind \in LoadFailures :
       ExecuteCatch(LoadMessage(kind, configPath), errors, sessionErrors)
  /\ UNCHANGED <<i, results, changes, attempts, inFlight, persistCalls, file,
                 critAt, critKind, attempted>>
  /\ UNCHANGED <<isConnected, chromeProcess, chrome, sigVars, inputVars>>

LaunchOk ==
  /\ Running /\ UNCHANGED <<graceVars, auxVars>> /\ pc = "launching"
  /\ chromeProcess' = "set"
  /\ chrome' = "running"
  /\ killed' = FALSE
  /\ pc' = "connecting"
  /\ UNCHANGED <<sessVars, settle, cleanupCalls, isConnected, exitListeners,
                 graceTimers, sigVars, endVars, inputVars>>

\* launch() fails before spawn: its own catch finds no process to terminate
LaunchFail ==
  /\ Running /\ UNCHANGED <<graceVars, auxVars>> /\ pc = "launching"
  /\ \E kind \in LaunchFailures :
       ExecuteCatch(LaunchMessage(kind), errors, sessionErrors)
  /\ UNCHANGED <<i, results, changes, attempts, inFlight, persistCalls, file,
                 critAt, critKind, attempted>>
  /\ UNCHANGED <<isConnected, chromeProcess, chrome, sigVars, inputVars>>

ConnectOk ==
  /\ Running /\ UNCHANGED <<graceVars, auxVars>> /\ pc = "connecting"
  /\ chrome = "running"
  /\ isConnected' = TRUE
  /\ pc' = "loop"
  /\ UNCHANGED <<sessVars, settle, cleanupCalls, chromeProcess, killed, chrome,
                 exitListeners, graceTimers, sigVars, endVars, inputVars>>

ConnectFail ==
  /\ Running /\ UNCHANGED <<graceVars, auxVars>> /\ pc = "connecting"
  /\ ExecuteCatch(ConnectMessage, errors, sessionErrors)
  /\ UNCHANGED <<i, results, changes, attempts, inFlight, persistCalls, file,
                 critAt, critKind, attempted>>
  /\ UNCHANGED <<isConnected, chromeProcess, chrome, sigVars, inputVars>>

(* ---------------- detect-change.js: processMonitoringTargets ---------------- *)

\* variant: the catch records the error but pushes no result
errorResultDropped(res, t, cat) == res

\* the record the loop's catch pushes to session.results
errorResult(res, t, cat) ==
  Append(res, [entry |-> t, hasChanged |-> FALSE, failed |-> TRUE, newValue |-> NULL])

\* the loop's catch: classify, record, stop or go on
LoopCatch(t, kind, msg) ==
  LET cat == categorizeError(msg, [type |-> "target",
                                   operation |-> "processMonitoringTarget"])
      errs == Append(errors, [type |-> cat.type, severity |-> cat.severity,
                              stage |-> "target"])
      sev == handleError(sessionErrors, cat)
  IN /\ results' = errorResult(results, t, cat)
     /\ IF cat.severity = "CRITICAL" /\ critAt = 0
        THEN critAt' = t /\ critKind' = kind
        ELSE UNCHANGED <<critAt, critKind>>
     /\ IF shouldStopWorkflow(cat)
        THEN /\ i' = i
             /\ ExecuteCatch(msg, errs, sev)
             /\ UNCHANGED <<isConnected, chromeProcess, chrome>>
        ELSE /\ i' = i + 1
             /\ pc' = "loop"
             /\ errors' = errs
             /\ sessionErrors' = sev
             /\ UNCHANGED <<abortSev, abortAt, settle, cleanupCalls, browserVars, endVars>>

\* processMonitoringTarget: createPage
TargetStart ==
  /\ Running /\ UNCHANGED <<graceVars, auxVars>> /\ pc = "loop" /\ i < NumTargets
  /\ attempted' = attempted \cup {i + 1}
  /\ IF isConnected
     THEN /\ pc' = "fetch"
          /\ UNCHANGED <<i, results, errors, sessionErrors, critAt, critKind,
                         abortSev, abortAt, settle, cleanupCalls, browserVars,
                         endVars>>
     ELSE LoopCatch(i + 1, "CreatePage", CreatePageMessage)
  /\ UNCHANGED <<changes, attempts, inFlight, persistCalls, file, sigVars, inputVars>>

\* variant: every outcome is put in the batch of changes
collectChangeAlways(chs, result) == Append(chs, result)

\* `if (result.hasChanged) changes.push(result)`
collectChange(chs, result) == IF result.hasChanged THEN Append(chs, result) ELSE chs

\* navigateAndExtract and processEntry succeed, the page is closed
FetchOk ==
  /\ Running /\ UNCHANGED <<graceVars, auxVars>> /\ pc = "fetch" /\ BrowserUsable
  /\ \E text \in RawTexts :
       LET result == processEntry(Entry(i + 1), extractTextContent(text))
       IN /\ results' = Append(results, result)
          /\ changes' = collectChange(changes, result)
  /\ i' = i + 1
  /\ pc' = "loop"
  /\ UNCHANGED <<errors, sessionErrors, attempts, inFlight, persistCalls, file,
                 critAt, critKind, attempted, abortSev, abortAt, settle, cleanupCalls,
                 browserVars,
                 sigVars, endVars, inputVars>>

\* navigateAndExtract throws, the page is closed, the loop's catch runs
FetchFail ==
  /\ Running /\ UNCHANGED <<graceVars, auxVars>> /\ pc = "fetch"
  /\ \E kind \in FetchFailures :
       /\ BrowserUsable \/ kind = "BrowserClosed"
       /\ LoopCatch(i + 1, kind, handleNavigationError(kind, urls[i + 1]))
  /\ UNCHANGED <<changes, attempts, inFlight, persistCalls, file, attempted,
                 sigVars, inputVars>>

\* variant: the state update runs whether or not anything changed
nextStageAlwaysPersist(nChanges, notifier) == "persisting"

\* variant: the state update no longer waits for the notification step
nextStagePersistFirst(nChanges, notifier) ==
  IF nChanges > 0 THEN "persisting" ELSE "return"

\* what follows the loop: `changes.length > 0 && this.slackNotifier`, `changes.length > 0`
nextStage(nChanges, notifier) ==
  IF nChanges > 0 /\ notifier THEN "notifying"
  ELSE IF nChanges > 0 THEN "persisting"
  ELSE "return"

AfterLoop ==
  /\ Running /\ UNCHANGED <<graceVars, auxVars>> /\ pc = "loop" /\ i = NumTargets
  /\ LET stage == nextStage(Len(changes), slackNotifier)
     IN IF stage = "return"
        THEN /\ Finally("return", sessionErrors)
             /\ UNCHANGED persistCalls
        ELSE /\ pc' = stage
             /\ persistCalls' = IF stage = "persisting" THEN persistCalls + 1
                                ELSE persistCalls
             /\ UNCHANGED <<settle, cleanupCalls, killed, exitListeners, graceTimers,
                            endVars>>
  /\ UNCHANGED <<i, results, errors, sessionErrors, changes, attempts, inFlight,
                 file, critAt, critKind, attempted, abortSev, abortAt, isConnected,
                 chromeProcess, chrome, sigVars, inputVars>>

(* ---------------- detect-change.js: sendNotificationsForChanges ---------------- *)

\* variant: the notification loop is left after its first change
notifyLoopDoneAfterFirst(nDone, nChanges) == nDone >= 1

\* variant: the notification loop never hands over to the state update
notifyLoopDoneNever(nDone, nChanges) == FALSE

\* `for (const change of changes)` is over
notifyLoopDone(nDone, nChanges) == nDone = nChanges

\* variant: the loop keeps handing the first change to the notifier
nextChangeAlwaysFirst(chs, nDone) == chs[1]

\* the change `for (const change of changes)` hands to the notifier next
nextChange(chs, nDone) == chs[nDone + 1]

\* sendChangeNotification is called for the next change and awaited
NotifyStart ==
  /\ Running /\ UNCHANGED <<graceVars, auxVars>> /\ pc = "notifying" /\ ~inFlight
  /\ Len(attempts) < Len(changes)
  /\ inFlight' = TRUE
  /\ UNCHANGED <<pc, i, results, errors, sessionErrors, changes, attempts,
                 persistCalls, file, critAt, critKind, attempted, abortSev, abortAt, settle,
                 cleanupCalls, browserVars, sigVars, endVars, inputVars>>

\* sendChangeNotification resolves true or false (it catches what sendWebhook throws)
NotifyDone ==
  /\ Running /\ UNCHANGED <<graceVars, auxVars>> /\ pc = "notifying" /\ inFlight
  /\ \E sent \in BOOLEAN :
       attempts' = Append(attempts, [entry |-> nextChange(changes, Len(attempts)).entry,
                                     sent |-> sent])
  /\ inFlight' = FALSE
  /\ IF notifyLoopDone(Len(attempts) + 1, Len(changes))
     THEN pc' = "persisting" /\ persistCalls' = persistCalls + 1
     ELSE pc' = "notifying" /\ UNCHANGED persistCalls
  /\ UNCHANGED <<i, results, errors, sessionErrors, changes, file, critAt,
                 critKind, attempted, abortSev, abortAt, settle, cleanupCalls, browserVars,
                 sigVars,
                 endVars, inputVars>>

(* ---------------- detect-change.js: the state update step ---------------- *)

\* saveConfig: fs.writeFile opens the configuration file, which truncates it
SaveTruncate ==
  /\ Running /\ UNCHANGED <<graceVars, auxVars>> /\ pc = "persisting"
  /\ pc' = "writing"
  /\ file' = <<>>
  /\ UNCHANGED <<i, results, errors, sessionErrors, changes, attempts, inFlight,
                 persistCalls, critAt, critKind, attempted, abortSev, abortAt, settle,
                 cleanupCalls, browserVars, sigVars, endVars, inputVars>>

\* updateAndPersist writes the updated targets; execute() returns the session
PersistOk ==
  /\ Running /\ UNCHANGED <<graceVars, auxVars>> /\ pc = "writing"
  /\ file' = updateConfigValues(LoadedTargets, changes)
  /\ Finally("return", sessionErrors)
  /\ UNCHANGED <<i, results, errors, sessionErrors, changes, attempts, inFlight,
                 persistCalls, critAt, critKind, attempted, abortSev, abortAt, isConnected,
                 chromeProcess, chrome, sigVars, inputVars>>

\* updateAndPersist throws: the catch records the error and throws it on
PersistFail ==
  /\ Running /\ UNCHANGED <<graceVars, auxVars>> /\ pc \in {"persisting", "writing"}
  /\ \E kind \in PersistFailures :
       /\ (kind = "SaveENOSPC") <=> (pc = "writing")
       /\ LET msg == updateAndPersistMessage(kind, configPath)
              cat == categorizeError(msg, [type |-> "persistence",
                                           operation |-> "updateAndPersist"])
          IN ExecuteCatch(msg,
                          Append(errors, [type |-> cat.type, severity |-> cat.severity,
                                          stage |-> "persistence"]),
                          handleError(sessionErrors, cat))
  /\ UNCHANGED <<i, results, changes, attempts, inFlight, persistCalls, file,
                 critAt, critKind, attempted, isConnected, chromeProcess, chrome,
                 sigVars, inputVars>>

(* ---------------- detect-change.js: cleanup() inside execute() ---------------- *)

\* disconnect() is over (it returned or threw, the throw is logged); terminate() next
WfDisconnect ==
  /\ Running /\ UNCHANGED <<graceVars, auxVars>> /\ pc = "cl_disconnect"
  /\ isConnected' = FALSE
  /\ IF isRunning
     THEN /\ pc' = "cl_terminate"
          /\ killed' = TRUE
          /\ exitListeners' = exitListeners \cup {"wf"}
          /\ graceTimers' = graceTimers \cup {"wf"}
          /\ UNCHANGED endVars
     ELSE /\ pc' = "done"
          /\ UNCHANGED <<killed, exitListeners, graceTimers>>
          /\ Settle(settle, sessionErrors)
  /\ UNCHANGED <<sessVars, settle, cleanupCalls, chromeProcess, chrome, sigVars, inputVars>>

\* the "exit" listener of terminate() has run
WfTerminated ==
  /\ Running /\ UNCHANGED <<graceVars, auxVars>> /\ pc = "cl_terminate"
  /\ chrome = "exited" /\ "wf" \in exitListeners
  /\ pc' = "done"
  /\ Settle(settle, sessionErrors)
  /\ UNCHANGED <<sessVars, settle, cleanupCalls, browserVars, sigVars, inputVars>>

\* Chrome exits on the SIGTERM of terminate(); the listener clears chromeProcess
ChromeExit ==
  /\ Running /\ UNCHANGED <<graceVars, auxVars>> /\ chrome = "running" /\ killed
  /\ chrome' = "exited"
  /\ chromeProcess' = "null"
  /\ UNCHANGED <<pc, sessVars, settle, cleanupCalls, isConnected, killed,
                 exitListeners, graceTimers, sigVars, endVars, inputVars>>

\* chrome-launcher.js terminate(): the setTimeout callback, 5 seconds after SIGTERM
ForceKillTimeout ==
  /\ Running /\ UNCHANGED auxVars
  /\ \E x \in graceTimers :
       /\ graceTimers' = graceTimers \ {x}
       /\ expiredAlive' = (expiredAlive \/ chrome = "running")
       /\ IF chromeProcess = "set" /\ ~killed
          THEN killed' = TRUE /\ sigkill' = TRUE
          ELSE UNCHANGED <<killed, sigkill>>
  /\ UNCHANGED <<pc, sessVars, settle, cleanupCalls, isConnected, chromeProcess,
                 chrome, exitListeners, sigVars, endVars, inputVars>>

(* ---------------- detect-change.js: handleShutdown ---------------- *)

SignalExitCode(signal) == IF signal = "SIGINT" THEN ExitSIGINT ELSE ExitSIGTERM

\* process.exit from the signal handler
HandlerExit(code) ==
  /\ exited' = TRUE
  /\ exitCode' = code
  /\ UNCHANGED <<outcome, endTime>>

\* a signal is delivered: handleShutdown up to its first suspension
Signal ==
  /\ Running /\ UNCHANGED <<graceVars, auxVars>>
  /\ \E signal \in {"SIGINT", "SIGTERM"} :
       /\ signals' = Append(signals, signal)
       /\ IF isShuttingDown
          THEN /\ HandlerExit(ExitForced)
               /\ UNCHANGED <<hpc, isShuttingDown, cleanupCalls, killed, exitListeners,
                              graceTimers>>
          ELSE /\ isShuttingDown' = TRUE
               /\ cleanupCalls' = cleanupCalls + 1
               /\ IF isConnectedToBrowser
                  THEN /\ hpc' = "h_disconnect"
                       /\ UNCHANGED <<killed, exitListeners, graceTimers, endVars>>
                  ELSE IF isRunning
                  THEN /\ hpc' = "h_terminate"
                       /\ killed' = TRUE
                       /\ exitListeners' = exitListeners \cup {"sig"}
                       /\ graceTimers' = graceTimers \cup {"sig"}
                       /\ UNCHANGED endVars
                  ELSE /\ hpc' = "h_done"
                       /\ UNCHANGED <<killed, exitListeners, graceTimers>>
                       /\ HandlerExit(SignalExitCode(signal))
  /\ UNCHANGED <<pc, sessVars, settle, isConnected, chromeProcess, chrome, inputVars>>

\* the handler's disconnect() is over; terminate() next
HandlerDisconnect ==
  /\ Running /\ UNCHANGED <<graceVars, auxVars>> /\ hpc = "h_disconnect"
  /\ isConnected' = FALSE
  /\ IF isRunning
     THEN /\ hpc' = "h_terminate"
          /\ killed' = TRUE
          /\ exitListeners' = exitListeners \cup {"sig"}
          /\ graceTimers' = graceTimers \cup {"sig"}
          /\ UNCHANGED endVars
     ELSE /\ hpc' = "h_done"
          /\ UNCHANGED <<killed, exitListeners, graceTimers>>
          /\ HandlerExit(SignalExitCode(signals[1]))
  /\ UNCHANGED <<pc, sessVars, settle, cleanupCalls, chromeProcess, chrome,
                 isShuttingDown, signals, inputVars>>

\* the handler's terminate() is over: process.exit(130 or 143)
HandlerTerminated ==
  /\ Running /\ UNCHANGED <<graceVars, auxVars>> /\ hpc = "h_terminate"
  /\ chrome = "exited" /\ "sig" \in exitListeners
  /\ hpc' = "h_done"
  /\ HandlerExit(SignalExitCode(signals[1]))
  /\ UNCHANGED <<pc, sessVars, settle, cleanupCalls, browserVars, isShuttingDown,
                 signals, inputVars>>

Next ==
  \/ Initialize
  \/ LoadOk
  \/ LoadFail
  \/ LaunchOk
  \/ LaunchFail
  \/ ConnectOk
  \/ ConnectFail
  \/ TargetStart
  \/ FetchOk
  \/ FetchFail
  \/ AfterLoop
  \/ NotifyStart
  \/ NotifyDone
  \/ SaveTruncate
  \/ PersistOk
  \/ PersistFail
  \/ WfDisconnect
  \/ WfTerminated
  \/ ChromeExit
  \/ ForceKillTimeout
  \/ Signal
  \/ HandlerDisconnect
  \/ HandlerTerminated

Spec == Init /\ [][Next]_vars

\* every step the program itself takes: awaited calls come back and timers
\* fire; whether Chrome exits on SIGTERM and whether a signal arrives is not
\* up to the program
Progress ==
  \/ Initialize
  \/ LoadOk
  \/ LoadFail
  \/ LaunchOk
  \/ LaunchFail
  \/ ConnectOk
  \/ ConnectFail
  \/ TargetStart
  \/ FetchOk
  \/ FetchFail
  \/ AfterLoop
  \/ NotifyStart
  \/ NotifyDone
  \/ SaveTruncate
  \/ PersistOk
  \/ PersistFail
  \/ WfDisconnect
  \/ WfTerminated
  \/ ForceKillTimeout
  \/ HandlerDisconnect
  \/ HandlerTerminated

SpecLive == Init /\ [][Next]_vars /\ WF_vars(Progress)

(* ---------------- function calls under study ---------------- *)

\* entries in a targets array
MaxEntries == 2

\* change records in one call
MaxChanges == 1

\* times the same call is repeated
MaxCalls == 2

SeqsUpTo(S, n) == UNION { [1 .. k -> S] : k \in 0 .. n }

\* a url or selector is a tuple of pieces of text; "|" is the separator
\* character of the change map's key
Urls == { <<"http://x/p">>, <<"http://x/p", "|", "a">> }

Selectors == { <<"b">>, <<"a", "|", "b">> }

ConfigEntries ==
  [url : Urls, css_selector : Selectors, current_value : {InitialValue}]

\* change.entry of a change record that has no entry
NoEntry == [undefined |-> TRUE]

ChangeRecords ==
  [entry : ConfigEntries \cup {NoEntry}, hasChanged : BOOLEAN, newValue : {<<"b">>}]

\* `${entry.url}|${entry.css_selector}`
changeKey(entry) == entry.url \o <<"|">> \o entry.css_selector

\* changes.forEach(...changeMap.set(key, change.newValue)): records without
\* entry or without hasChanged are skipped, a later record replaces an earlier one
changeMap(chs) ==
  LET used == { k \in DOMAIN chs : chs[k].entry # NoEntry /\ chs[k].hasChanged }
      last(key) == CHOOSE k \in used :
                     /\ changeKey(chs[k].entry) = key
                     /\ \A j \in used : changeKey(chs[j].entry) = key => j <= k
  IN [key \in { changeKey(chs[k].entry) : k \in used } |-> chs[last(key)].newValue]

\* JSON.parse(JSON.stringify(targets)): new entry objects with the same fields
deepCopy(targets) ==
  [k \in DOMAIN targets |->
     [url |-> targets[k].url,
      css_selector |-> targets[k].css_selector,
      current_value |-> targets[k].current_value]]

\* StateManager.updateConfigValues over entry records: the array it returns
updateConfigValuesByKey(targets, chs) ==
  LET updatedTargets == deepCopy(targets)
      m == changeMap(chs)
  IN [k \in DOMAIN updatedTargets |->
        IF changeKey(updatedTargets[k]) \in DOMAIN m
        THEN [updatedTargets[k] EXCEPT !.current_value = m[changeKey(updatedTargets[k])]]
        ELSE updatedTargets[k]]

\* validateTargetsArray: not empty, no two entries with the same key
validateTargetsArray(targets) ==
  /\ targets # <<>>
  /\ \A a, b \in DOMAIN targets : changeKey(targets[a]) = changeKey(targets[b]) => a = b

\* a configuration file: a top-level array of entries (legacy) or an object
\* with targets and, when the key is there, slack_webhook (NULL: no such key)
ConfigFiles ==
  { d \in [shape : {"array", "object"},
           targets : SeqsUpTo(ConfigEntries, MaxEntries),
           slack_webhook : {NULL, <<"https://hooks.slack.com/x">>}] :
      /\ d.shape = "array" => d.slack_webhook = NULL
      /\ validateTargetsArray(d.targets) }

\* normalizeConfig: an array becomes {targets: config, slack_webhook: undefined}
normalizeConfig(config) ==
  IF config.shape = "array"
  THEN [shape |-> "object", targets |-> config.targets, slack_webhook |-> NULL]
  ELSE config

\* variant: the reloaded configuration is written back with its own targets
updateAndPersistOriginalTargets(config, targets, chs) ==
  IF config.shape = "array"
  THEN [shape |-> "object", targets |-> config.targets, slack_webhook |-> NULL]
  ELSE config

\* the file after updateAndPersist: {...originalConfig, targets: updatedTargets}
\* written by JSON.stringify, which leaves out a key whose value is undefined;
\* nothing is written when saveConfig's validateConfig throws
updateAndPersist(config, targets, chs) ==
  LET originalConfig == normalizeConfig(config)
      updatedConfig ==
        [originalConfig EXCEPT !.targets = updateConfigValuesByKey(targets, chs)]
  IN IF validateTargetsArray(updatedConfig.targets) THEN updatedConfig ELSE config

\* keywords in one message
MaxKeywords == 3

\* every text categorizeError or a suggestion generator looks for
Keywords ==
  { "Configuration", "Invalid JSON", "Missing required field", "Config load failed",
    "not found", "Chrome", "launch", "port", "debug", "connect", "CDP", "browser",
    "Navigation", "timeout", "net::ERR", "load", "selector", "element",
    "textContent", "extract", "Slack", "webhook", "notification", "persist",
    "write", "permission", "EACCES", "ENOSPC" }

RECURSIVE KeywordSets(_)
KeywordSets(n) ==
  IF n = 0 THEN { {} }
  ELSE LET smaller == KeywordSets(n - 1)
       IN smaller \cup { m \cup {w} : m \in smaller, w \in Keywords }

\* messages: a text with "Config load failed" in it has "load" in it
Messages ==
  { m \in KeywordSets(MaxKeywords) : "Config load failed" \in m => "load" \in m }

Contexts ==
  [type : {"config", "workflow"}, operation : {"processMonitoringTarget", "execute"}]

\* values handed to detectChange: missing, empty, texts with and without
\* blanks around them, a number
CompareValues ==
  RawTexts \cup Numbers \cup
  { NULL, <<>>, <<" ">>, <<"a", " ">>, <<"1">>, <<" ", "1">>, <<"a", " ", "b">> }

\* navigateAndExtract threw for this page: a failure the target loop isolates
PageFailure == <<"failure">>

\* what a monitored element shows, the same at every run
PageOutcomes == { <<" ", "a">>, <<"b">>, PageFailure }

\* entries of the configuration file a run starts from
RunEntries ==
  [url : Urls, css_selector : Selectors, current_value : { <<"a">>, <<"a", " ">> }]

\* files loadConfig accepts
RunFiles ==
  { d \in [shape : {"array", "object"},
           targets : SeqsUpTo(RunEntries, MaxEntries),
           slack_webhook : {NULL, <<"https://hooks.slack.com/x">>}] :
      /\ d.shape = "array" => d.slack_webhook = NULL
      /\ validateTargetsArray(d.targets) }

\* session.results of processMonitoringTargets: processEntry(entry, extractedValue)
\* for a page that could be read
runResults(targets, texts) ==
  [k \in DOMAIN targets |->
     IF texts[k] = PageFailure
     THEN [entry |-> targets[k], hasChanged |-> FALSE, newValue |-> NULL]
     ELSE [entry |-> targets[k],
           hasChanged |-> detectChange(extractTextContent(texts[k]), targets[k].current_value),
           newValue |-> extractTextContent(texts[k])]]

\* if (result.hasChanged) changes.push(result)
hasChanged(result) == result.hasChanged

Calls ==
  { [fn |-> "detectChange", currentValue |-> v, storedValue |-> w] :
      v \in CompareValues, w \in CompareValues }
  \cup
  { [fn |-> "categorizeError", message |-> m, context |-> c] :
      m \in Messages, c \in Contexts }
  \cup
  { [fn |-> "updateConfigValues", targets |-> ts, changes |-> chs] :
      ts \in SeqsUpTo(ConfigEntries, MaxEntries),
      chs \in SeqsUpTo(ChangeRecords, MaxChanges) }
  \cup
  { [fn |-> "updateAndPersist", config |-> d, targets |-> d.targets, changes |-> chs] :
      d \in ConfigFiles, chs \in SeqsUpTo(ChangeRecords, MaxChanges) }
  \cup
  UNION { { [fn |-> "run", config |-> d, pages |-> ps, slackWebhook |-> w] :
              ps \in [DOMAIN d.targets -> PageOutcomes], w \in BOOLEAN } :
          d \in RunFiles }

InitCalls ==
  /\ Parked
  /\ NoPages
  /\ NoController
  /\ call0 \in Calls
  /\ call = call0
  /\ rets = <<>>
  /\ NoRuns

\* updateConfigValues only writes to its deep copy: the arguments stay as passed
ApplyUpdateConfigValues ==
  /\ call0.fn = "updateConfigValues"
  /\ Len(rets) < MaxCalls
  /\ rets' = Append(rets, updateConfigValuesByKey(call.targets, call.changes))
  /\ UNCHANGED <<call0, call, exceptCalls>>

\* the file at filePath is replaced; updatedTargets is returned
ApplyUpdateAndPersist ==
  /\ call0.fn = "updateAndPersist"
  /\ rets = <<>>
  /\ rets' = <<updateConfigValuesByKey(call.targets, call.changes)>>
  /\ call' = [call EXCEPT !.config = updateAndPersist(call.config, call.targets, call.changes)]
  /\ UNCHANGED <<call0, exceptCalls>>

\* categorizeError(error, context): type, severity and suggestions of the result
ApplyCategorizeError ==
  /\ call0.fn = "categorizeError"
  /\ rets = <<>>
  /\ LET cat == categorizeError(call.message, call.context)
     IN rets' = <<[type |-> cat.type, severity |-> cat.severity,
                   suggestions |-> suggestions(call.message, call.context)]>>
  /\ UNCHANGED <<call0, call, exceptCalls>>

\* ChangeDetector.detectChange(currentValue, storedValue)
ApplyDetectChange ==
  /\ call0.fn = "detectChange"
  /\ rets = <<>>
  /\ rets' = <<detectChange(call.currentValue, call.storedValue)>>
  /\ UNCHANGED <<call0, call, exceptCalls>>

\* one execution of the workflow over the file and the pages: loadConfig, the
\* target loop, sendNotificationsForChanges, updateAndPersist; the write either
\* succeeds or throws and leaves the file as it was
ApplyRun ==
  /\ call0.fn = "run"
  /\ Len(rets) < MaxCalls
  /\ LET loaded == validateTargetsArray(call.config.targets)
         config == normalizeConfig(call.config)
         targets == config.targets
         found == SelectSeq(runResults(targets, call.pages), hasChanged)
         notifier == call.slackWebhook \/ config.slack_webhook # NULL
     IN \E saved \in (IF loaded /\ found # <<>> THEN BOOLEAN ELSE {FALSE}) :
          /\ call' = [call EXCEPT !.config =
                        IF saved THEN updateAndPersist(call.config, targets, found) ELSE @]
          /\ rets' = Append(rets,
                 [loaded |-> loaded,
                  changes |-> IF loaded THEN Len(found) ELSE 0,
                  notifications |-> IF loaded /\ notifier THEN Len(found) ELSE 0,
                  writes |-> IF saved THEN 1 ELSE 0])
  /\ UNCHANGED <<call0, exceptCalls>>

NextCalls ==
  \/ ApplyRun
  \/ ApplyDetectChange
  \/ ApplyCategorizeError
  \/ ApplyUpdateConfigValues
  \/ ApplyUpdateAndPersist

SpecCalls == InitCalls /\ [][NextCalls]_vars

(* ---------------- overlapping runs on one machine ---------------- *)

\* orchestrator processes started on the same machine
NumRuns == 3

Runs == 1 .. NumRuns

InitRuns ==
  /\ Parked
  /\ NoPages
  /\ NoController
  /\ NoCall
  /\ lpc = [r \in Runs |-> "idle"]
  /\ runChrome = [r \in Runs |-> "null"]
  /\ portOwner = 0
  /\ userDataDir = "absent"
  /\ connectedTo = [r \in Runs |-> 0]
  /\ harmed = {}

\* another run's Chrome is using the profile directory
OthersUsingDir(r) == { q \in Runs \ {r} : runChrome[q] = "running" }

\* fs.rm(this.userDataDir, {recursive, force}): the path is the same for every run
cleanupTempFiles(r) ==
  /\ userDataDir' = "absent"
  /\ harmed' = IF userDataDir = "present"
               THEN harmed \cup { <<r, "deleted files of", q>> : q \in OthersUsingDir(r) }
               ELSE harmed

\* terminate(): kill this run's own Chrome if it has one, then cleanupTempFiles
terminate(r) ==
  /\ runChrome' = [runChrome EXCEPT ![r] = "null"]
  /\ portOwner' = IF portOwner = r THEN 0 ELSE portOwner
  /\ cleanupTempFiles(r)

\* launch(): isPortInUse is true; portError is thrown, the catch calls terminate()
LaunchPortInUse(r) ==
  /\ lpc[r] = "idle"
  /\ portOwner # 0
  /\ terminate(r)
  /\ lpc' = [lpc EXCEPT ![r] = "failed"]
  /\ UNCHANGED <<connectedTo, exceptRuns>>

\* launch(): the test listener could bind the port and was closed again
LaunchPortFree(r) ==
  /\ lpc[r] = "idle"
  /\ portOwner = 0
  /\ lpc' = [lpc EXCEPT ![r] = "checked"]
  /\ UNCHANGED <<runChrome, portOwner, userDataDir, connectedTo, harmed, exceptRuns>>

\* launch(): spawn(chromePath, [--remote-debugging-port=9222, --user-data-dir=...]);
\* the new Chrome listens on the port unless another process already does
LaunchSpawn(r) ==
  /\ lpc[r] = "checked"
  /\ lpc' = [lpc EXCEPT ![r] = "spawned"]
  /\ runChrome' = [runChrome EXCEPT ![r] = "running"]
  /\ portOwner' = IF portOwner = 0 THEN r ELSE portOwner
  /\ userDataDir' = "present"
  /\ UNCHANGED <<connectedTo, harmed, exceptRuns>>

\* launch(): spawn() returns a ChildProcess for which no process could be
\* started; the "error" event is emitted after spawn() has returned
LaunchSpawnFails(r) ==
  /\ lpc[r] = "checked"
  /\ lpc' = [lpc EXCEPT ![r] = "spawnFailed"]
  /\ runChrome' = [runChrome EXCEPT ![r] = "unstarted"]
  /\ UNCHANGED <<portOwner, userDataDir, connectedTo, harmed, exceptRuns>>

\* the "error" listener of launch() runs while launch() awaits its timer: it
\* throws chromeError inside emit(), the process-level "uncaughtException"
\* listener calls globalWorkflow.cleanup() and then process.exit(1)
SpawnErrorEvent(r) ==
  /\ lpc[r] = "spawnFailed"
  /\ lpc' = [lpc EXCEPT ![r] = "uncaught"]
  /\ terminate(r)
  /\ UNCHANGED <<connectedTo, exceptRuns>>

\* waitForDebugPort(): a socket to localhost:9222 connects to whoever listens;
\* without a listener it times out and launch()'s catch calls terminate()
WaitForDebugPort(r) ==
  /\ lpc[r] = "spawned"
  /\ IF portOwner # 0
     THEN /\ lpc' = [lpc EXCEPT ![r] = "ready"]
          /\ UNCHANGED <<runChrome, portOwner, userDataDir, harmed>>
     ELSE /\ lpc' = [lpc EXCEPT ![r] = "failed"]
          /\ terminate(r)
  /\ UNCHANGED <<connectedTo, exceptRuns>>

\* BrowserController.connect(debugUrl): connectOverCDP to http://localhost:9222
RunConnect(r) ==
  /\ lpc[r] = "ready"
  /\ IF portOwner # 0
     THEN /\ lpc' = [lpc EXCEPT ![r] = "connected"]
          /\ connectedTo' = [connectedTo EXCEPT ![r] = portOwner]
          /\ harmed' = IF portOwner # r
                       THEN harmed \cup { <<r, "connected to", portOwner>> }
                       ELSE harmed
     ELSE /\ lpc' = [lpc EXCEPT ![r] = "failed"]
          /\ UNCHANGED <<connectedTo, harmed>>
  /\ UNCHANGED <<runChrome, portOwner, userDataDir, exceptRuns>>

\* MonitoringWorkflow.cleanup(): disconnect, then chromeLauncher.terminate()
RunCleanup(r) ==
  /\ lpc[r] \in {"connected", "failed"}
  /\ lpc' = [lpc EXCEPT ![r] = "done"]
  /\ connectedTo' = [connectedTo EXCEPT ![r] = 0]
  /\ terminate(r)
  /\ UNCHANGED <<exceptRuns>>

NextRuns ==
  \E r \in Runs :
    \/ LaunchPortInUse(r)
    \/ LaunchPortFree(r)
    \/ LaunchSpawn(r)
    \/ LaunchSpawnFails(r)
    \/ SpawnErrorEvent(r)
    \/ WaitForDebugPort(r)
    \/ RunConnect(r)
    \/ RunCleanup(r)

SpecRuns == InitRuns /\ [][NextRuns]_vars

(* ---------------- page handles of processMonitoringTarget ---------------- *)

InitPages ==
  /\ Parked
  /\ NoCall
  /\ NoRuns
  /\ NoController
  /\ tpc = "next"
  /\ tdone = 0
  /\ page = 0
  /\ pages = {}
  /\ openPages = {}
  /\ tried = <<>>
  /\ outcomes = <<>>
  /\ closeFailed = {}

\* variant: closePage leaves the page in the tracking set
untrackKeeps(tracked, p) == tracked

\* closePage: this.pages.delete(page)
untrack(tracked, p) == tracked \ {p}

\* variant: closePage lets the failure of page.close() out of the finally block
completionRethrows(produced, closed) ==
  IF closed THEN produced ELSE [threw |-> TRUE, value |-> NULL, error |-> {"close"}]

\* how processMonitoringTarget completes: closePage catches whatever page.close()
\* throws, so the finally block completes normally and what the try block
\* returned or threw stands
completion(produced, closed) == produced

\* the loop goes on to the next target, or stops after a CRITICAL failure
afterTarget(outcome_) ==
  IF outcome_.threw /\ shouldStopWorkflow(
       categorizeError(outcome_.error, [type |-> "target",
                                        operation |-> "processMonitoringTarget"]))
  THEN "stopped"
  ELSE "next"

\* createPage returns a new page, tracked in this.pages
CreatePageOk ==
  /\ tpc = "next" /\ tdone < NumTargets
  /\ page' = tdone + 1
  /\ pages' = pages \cup {tdone + 1}
  /\ openPages' = openPages \cup {tdone + 1}
  /\ tpc' = "navigating"
  /\ UNCHANGED <<tdone, tried, outcomes, closeFailed, exceptPages>>

\* createPage throws: page stays null and the finally block closes nothing
CreatePageFail ==
  /\ tpc = "next" /\ tdone < NumTargets
  /\ LET produced == [threw |-> TRUE, value |-> NULL, error |-> CreatePageMessage]
     IN /\ tried' = Append(tried, produced)
        /\ outcomes' = Append(outcomes, produced)
        /\ tpc' = afterTarget(produced)
  /\ tdone' = tdone + 1
  /\ UNCHANGED <<page, pages, openPages, closeFailed, exceptPages>>

\* navigateAndExtract and processEntry return a result
NavigateOk ==
  /\ tpc = "navigating"
  /\ \E text \in RawTexts :
       tried' = Append(tried,
                  [threw |-> FALSE,
                   value |-> processEntry(Entry(page), extractTextContent(text)),
                   error |-> {}])
  /\ tpc' = "closing"
  /\ UNCHANGED <<tdone, page, pages, openPages, outcomes, closeFailed, exceptPages>>

\* navigateAndExtract throws
NavigateFail ==
  /\ tpc = "navigating"
  /\ \E kind \in FetchFailures :
       tried' = Append(tried,
                  [threw |-> TRUE, value |-> NULL,
                   error |-> handleNavigationError(kind, urls[page])])
  /\ tpc' = "closing"
  /\ UNCHANGED <<tdone, page, pages, openPages, outcomes, closeFailed, exceptPages>>

\* finally: closePage(page); page.close() succeeds, or it throws, the failure
\* is logged and the page may still be open
ClosePage ==
  /\ tpc = "closing"
  /\ pages' = untrack(pages, page)
  /\ \E closed \in BOOLEAN :
       /\ \E left \in (IF closed THEN {FALSE} ELSE BOOLEAN) :
            openPages' = IF left THEN openPages ELSE openPages \ {page}
       /\ closeFailed' = IF closed THEN closeFailed ELSE closeFailed \cup {page}
       /\ LET done == completion(tried[Len(tried)], closed)
          IN /\ outcomes' = Append(outcomes, done)
             /\ tpc' = afterTarget(done)
  /\ tdone' = tdone + 1
  /\ page' = 0
  /\ UNCHANGED <<tried, exceptPages>>

NextPages ==
  \/ CreatePageOk
  \/ CreatePageFail
  \/ NavigateOk
  \/ NavigateFail
  \/ ClosePage

SpecPages == InitPages /\ [][NextPages]_vars

(* ---------------- browser-controller.js on its own ---------------- *)

\* pages tracked at once
MaxPages == 2

\* CDP connections left open at once
MaxConnections == 2

InitController ==
  /\ Parked
  /\ NoCall
  /\ NoRuns
  /\ NoPages
  /\ bc = [isConnected |-> FALSE, browser |-> "null", context |-> "null",
           pages |-> 0, listening |-> FALSE]
  /\ live = 0
  /\ lastCall = [op |-> "constructor", result |-> "returned", why |-> "none",
             before |-> [isConnected |-> FALSE, browser |-> "null",
                         context |-> "null", pages |-> 0, listening |-> FALSE]]

\* isConnectedToBrowser() of a controller in state c
bcIsConnectedToBrowser(c) == c.isConnected /\ c.browser = "set" /\ c.context = "set"

\* connect(): `if (this.isConnected) throw` sits inside the try block, so the
\* catch runs for it as well and sets isConnected to false
ConnectAlready ==
  /\ bc.isConnected
  /\ bc' = [bc EXCEPT !.isConnected = FALSE]
  /\ lastCall' = [op |-> "connect", result |-> "rejected", why |-> "already", before |-> bc]
  /\ UNCHANGED <<live, exceptController>>

\* connect(): chromium.connectOverCDP rejects; this.browser is not assigned
ConnectOverCDPFails ==
  /\ ~bc.isConnected
  /\ bc' = [bc EXCEPT !.isConnected = FALSE]
  /\ lastCall' = [op |-> "connect", result |-> "rejected", why |-> "connectOverCDP", before |-> bc]
  /\ UNCHANGED <<live, exceptController>>

\* connect(): this.browser is assigned, then browser.newContext rejects
ConnectNewContextFails ==
  /\ ~bc.isConnected /\ live < MaxConnections
  /\ bc' = [bc EXCEPT !.isConnected = FALSE, !.browser = "set", !.listening = FALSE]
  /\ live' = live + 1
  /\ lastCall' = [op |-> "connect", result |-> "rejected", why |-> "newContext", before |-> bc]
  /\ UNCHANGED exceptController

\* connect() succeeds and registers the "disconnected" handler
BcConnectOk ==
  /\ ~bc.isConnected /\ live < MaxConnections
  /\ bc' = [bc EXCEPT !.isConnected = TRUE, !.browser = "set", !.context = "set",
                      !.listening = TRUE]
  /\ live' = live + 1
  /\ lastCall' = [op |-> "connect", result |-> "returned", why |-> "none", before |-> bc]
  /\ UNCHANGED exceptController

\* createPage(): throws unless isConnected and a context is there
BcCreatePage ==
  /\ bc.pages < MaxPages
  /\ IF bc.isConnected /\ bc.context = "set"
     THEN /\ bc' = [bc EXCEPT !.pages = @ + 1]
          /\ lastCall' = [op |-> "createPage", result |-> "returned", why |-> "none", before |-> bc]
     ELSE /\ bc' = bc
          /\ lastCall' = [op |-> "createPage", result |-> "rejected", why |-> "not connected",
                      before |-> bc]
  /\ UNCHANGED <<live, exceptController>>

\* the "disconnected" event of the browser connect() returned with
BrowserDisconnected ==
  /\ bc.browser = "set" /\ bc.listening
  /\ bc' = [isConnected |-> FALSE, browser |-> "null", context |-> "null",
            pages |-> 0, listening |-> FALSE]
  /\ live' = live - 1
  /\ lastCall' = [op |-> "disconnected", result |-> "returned", why |-> "none", before |-> bc]
  /\ UNCHANGED exceptController

\* disconnect() runs through: pages closed, the context closed if there is
\* one, the browser closed only `if (this.browser && this.isConnected)`
DisconnectOk ==
  /\ LET closes == bc.browser = "set" /\ bc.isConnected
     IN /\ bc' = [bc EXCEPT !.pages = 0, !.context = "null", !.isConnected = FALSE,
                            !.browser = IF closes THEN "null" ELSE @,
                            !.listening = IF closes THEN FALSE ELSE @]
        /\ live' = IF closes THEN live - 1 ELSE live
  /\ lastCall' = [op |-> "disconnect", result |-> "returned", why |-> "none", before |-> bc]
  /\ UNCHANGED exceptController

\* disconnect(): context.close() or browser.close() rejects; the catch clears
\* every field and throws
DisconnectFails ==
  /\ \E step \in {"context.close", "browser.close"} :
       /\ step = "context.close" => bc.context = "set"
       /\ step = "browser.close" => (bc.browser = "set" /\ bc.isConnected)
       /\ lastCall' = [op |-> "disconnect", result |-> "rejected", why |-> step, before |-> bc]
  /\ bc' = [isConnected |-> FALSE, browser |-> "null", context |-> "null",
            pages |-> 0, listening |-> FALSE]
  /\ UNCHANGED <<live, exceptController>>

NextController ==
  \/ ConnectAlready
  \/ ConnectOverCDPFails
  \/ ConnectNewContextFails
  \/ BcConnectOk
  \/ BcCreatePage
  \/ BrowserDisconnected
  \/ DisconnectOk
  \/ DisconnectFails

SpecController == InitController /\ [][NextController]_vars

(* ---------------- properties ---------------- *)

Persisted(t) == t \in DOMAIN file /\ file[t] # LoadedTargets[t]

Settled == outcome # "pending"

\* C1: every failure of the state update step (permission validation, reload
\* or validation of the configuration, the write) is classified CRITICAL and
\* makes execute() reject instead of returning the session.
C1_PersistFailureCriticalAndRejects ==
  \A k \in DOMAIN errors :
    errors[k].stage = "persistence" =>
      /\ errors[k].severity = "CRITICAL"
      /\ outcome # "resolved"

\* C2: in a run with at least one detected change, once updateAndPersist has
\* been called no notification is in flight and every notify attempt of the
\* run (one per change when a notifier is configured) has completed.
C2_NotifyBeforePersist ==
  persistCalls > 0 =>
    /\ changes # <<>>
    /\ ~inFlight
    /\ Len(attempts) = (IF slackNotifier THEN Len(changes) ELSE 0)

C2_Witness ==
  /\ persistCalls > 0
  /\ Len(attempts) = 2
  /\ \E k \in DOMAIN attempts : ~attempts[k].sent

\* C3: with a notifier configured, no target's new value is ever in the
\* configuration file unless the notification attempt for that change has
\* completed (delivered, or failed and logged); a run cut short between
\* notification and persistence leaves the file as it was.
C3_PersistedOnlyAfterNotifyAttempt ==
  \A t \in Targets :
    (slackNotifier /\ Persisted(t)) =>
      \E k \in DOMAIN attempts : attempts[k].entry = t

C3_Witness ==
  /\ slackNotifier
  /\ \E t \in Targets :
       /\ Persisted(t)
       /\ \E k \in DOMAIN attempts : attempts[k].entry = t /\ ~attempts[k].sent

\* C4: an error ends the remaining workflow if and only if it is classified
\* CRITICAL: what reaches execute()'s catch is CRITICAL, and every error
\* recorded as CRITICAL has reached it.
C4_AbortIffCritical ==
  /\ abortSev \in {"none", "CRITICAL"}
  /\ \A k \in DOMAIN errors : errors[k].severity = "CRITICAL" => abortSev # "none"

\* C5: a failure of one individual target (navigation error, page-ready or
\* selector timeout, missing or invalid selector, extraction failure) is never
\* the failure that stops the loop.
C5_TargetFailureNeverStopsLoop == critKind \notin TargetOnlyFailures

\* C6: as long as the loop has classified nothing CRITICAL, session.results
\* holds exactly one record per finished target, in input order; so it holds
\* NumTargets records when the loop is over.
C6_OneResultPerTargetInOrder ==
  critAt = 0 =>
    /\ Len(results) = i
    /\ \A k \in DOMAIN results : results[k].entry = k
    /\ (pc \notin {"start", "loading", "launching", "connecting", "loop", "fetch"}
          /\ abortSev = "none" => Len(results) = NumTargets)

C6_Witness ==
  /\ critAt = 0
  /\ i = NumTargets
  /\ \E k \in DOMAIN results : results[k].failed
  /\ \E k \in DOMAIN results : results[k].hasChanged

\* C7: once the loop has classified a target failure CRITICAL, no further
\* target is attempted and neither the notification step nor the state update
\* runs, also when earlier targets had detected changes.
C7_CriticalStopsEverything ==
  critAt # 0 =>
    /\ attempted = 1 .. critAt
    /\ attempts = <<>>
    /\ ~inFlight
    /\ persistCalls = 0
    /\ \A t \in Targets : ~Persisted(t)

C7_Witness ==
  /\ critAt # 0
  /\ changes # <<>>
  /\ Settled

\* C8 as stated: after a CRITICAL classification in the loop the run ends with
\* fewer results than targets and execute() rejects (here for the runs that
\* received no signal).
C8_CriticalLeavesResultsShort ==
  (critAt # 0 /\ Settled /\ signals = <<>>) =>
    /\ Len(results) < NumTargets
    /\ outcome = "rejected"

\* C8 amended: after a CRITICAL classification in the loop at target number c
\* the run ends with exactly c results (the failure record of that target is
\* pushed before the loop is left), so fewer than NumTargets unless c is the
\* last target, and execute() rejects.
C8_CriticalLeavesAttemptedResults ==
  (critAt # 0 /\ Settled) =>
    /\ Len(results) = critAt
    /\ (critAt < NumTargets => Len(results) < NumTargets)
    /\ outcome = "rejected"

C8_Witness ==
  /\ critAt = NumTargets
  /\ Len(results) = NumTargets
  /\ outcome = "rejected"

\* C9: cleanup() has run exactly once when the process ends, on every path.
C9_CleanupExactlyOnce == exited => cleanupCalls = 1

\* C10: a run that received a shutdown signal ends with the browser torn
\* down and exit code 130 (SIGINT) or 143 (SIGTERM).
C10_SignalExitCode ==
  (exited /\ Len(signals) = 1) => exitCode = SignalExitCode(signals[1])

\* C11: whenever execute() has settled (resolved or rejected), the browser
\* connection of the run is closed and the Chrome process the run started is
\* no longer running.
C11_TornDownWhenSettled ==
  Settled => (~isConnected /\ chrome # "running")

\* C12: when the 5 second grace timer of terminate() runs out and Chrome has
\* not exited on the SIGTERM, the process is force-terminated with SIGKILL.
C12_ForceKillAfterGrace == expiredAlive => sigkill

\* C13: a failure of loadConfig (file missing, malformed, schema-invalid,
\* empty target list) is classified CRITICAL by execute()'s catch, no target
\* is processed, and execute() rejects.
C13_LoadFailureCriticalAndRejects ==
  abortAt = "loading" =>
    /\ abortSev = "CRITICAL"
    /\ attempted = {}
    /\ (Settled => outcome = "rejected")

\* C14: a failure of chromeLauncher.launch or of browserController.connect
\* is classified CRITICAL by execute()'s catch, no target is processed,
\* and execute() rejects.
C14_EnvironmentFailureCriticalAndRejects ==
  abortAt \in {"launching", "connecting"} =>
    /\ abortSev = "CRITICAL"
    /\ attempted = {}
    /\ (Settled => outcome = "rejected")

\* C15: no notification failure reaches execute()'s catch, and once the loop
\* has completed with at least one change and every notify attempt is over
\* (however many failed), updateAndPersist has been called exactly once; when
\* it succeeds the file holds the new value of every change of the batch.
C15_NotifyFailureNeverBlocksPersist ==
  /\ abortAt # "notifying"
  /\ persistCalls <= 1
  /\ (/\ changes # <<>>
      /\ i = NumTargets /\ critAt = 0 /\ pc # "loop"
      /\ Len(attempts) = (IF slackNotifier THEN Len(changes) ELSE 0))
       => persistCalls = 1
  /\ (Settled /\ abortAt = "none" /\ changes # <<>>) =>
       \A k \in DOMAIN changes : file[changes[k].entry] = changes[k].newValue

C15_Witness ==
  /\ persistCalls = 1
  /\ Len(attempts) = NumTargets
  /\ \A k \in DOMAIN attempts : ~attempts[k].sent
  /\ outcome = "resolved"
  /\ \A t \in Targets : Persisted(t)

\* C16: every notify attempt that failed is in session.errors as exactly one
\* NOTIFICATION_ERROR of severity MEDIUM: as many notification errors are
\* recorded as attempts have failed.
C16_FailedNotificationRecorded ==
  LET failed == { k \in DOMAIN attempts : ~attempts[k].sent }
      recorded == { e \in DOMAIN errors : errors[e].stage = "notification" }
  IN /\ Cardinality(recorded) = Cardinality(failed)
     /\ \A e \in recorded :
          errors[e].type = "NOTIFICATION_ERROR" /\ errors[e].severity = "MEDIUM"

\* C17: the notify attempts are the changes of the batch, each once and in
\* batch order: the k-th attempt is for the k-th change, whether or not the
\* attempts before it failed, and when the state update starts every change
\* has had its attempt.
C17_EachChangeAttemptedOnceInOrder ==
  /\ Len(attempts) <= Len(changes)
  /\ \A k \in DOMAIN attempts : attempts[k].entry = changes[k].entry
  /\ \A j, k \in DOMAIN attempts : attempts[j].entry = attempts[k].entry => j = k
  /\ (slackNotifier /\ persistCalls > 0) => Len(attempts) = Len(changes)

C17_Witness ==
  /\ Len(attempts) = NumTargets
  /\ ~attempts[1].sent
  /\ attempts[NumTargets].sent
  /\ attempts[1].entry # attempts[NumTargets].entry

\* C18: a notification is only dispatched once every target has been
\* attempted; the targets notified, and the targets whose value is written to
\* the file, are targets whose result has hasChanged = TRUE (never an
\* unchanged outcome or a failure record); and when the state update starts
\* with a notifier configured, every changed result has had its attempt.
C18_OnlyChangesNotifiedAfterLoop ==
  LET changed == { results[r].entry : r \in { q \in DOMAIN results : results[q].hasChanged } }
      notified == { attempts[k].entry : k \in DOMAIN attempts }
  IN /\ (attempts # <<>> \/ inFlight) => (attempted = Targets /\ i = NumTargets)
     /\ notified \subseteq changed
     /\ \A t \in Targets : Persisted(t) => t \in changed
     /\ \A r \in DOMAIN results : results[r].failed => ~results[r].hasChanged
     /\ (slackNotifier /\ persistCalls > 0) => notified = changed

C18_Witness ==
  /\ Len(results) = NumTargets
  /\ \E r \in DOMAIN results : ~results[r].hasChanged
  /\ Len(attempts) = 1
  /\ Persisted(attempts[1].entry)
  /\ outcome = "resolved"

\* C19: when all NumTargets targets have been processed and every one was
\* fetched and compared unchanged, session.results holds NumTargets records,
\* there is no change, no notification was attempted, updateAndPersist was not
\* called and the file is as it was loaded.
C19_AllUnchangedDoesNothing ==
  (/\ i = NumTargets
   /\ \A r \in DOMAIN results : ~results[r].failed /\ ~results[r].hasChanged)
    => /\ Len(results) = NumTargets
       /\ changes = <<>>
       /\ attempts = <<>> /\ ~inFlight
       /\ persistCalls = 0
       /\ file = LoadedTargets

C19_Witness ==
  /\ i = NumTargets
  /\ \A r \in DOMAIN results : ~results[r].failed /\ ~results[r].hasChanged
  /\ slackNotifier
  /\ outcome = "resolved"
  /\ signals = <<>>

\* C20: each failure of a run is in session.errors exactly once, also when it
\* ends the run: in a run whose notifications were all delivered, the number
\* of recorded errors is the number of failed targets plus one for a failed
\* load, launch, connect or state update.
C20_OneErrorPerFailure ==
  (\A k \in DOMAIN attempts : attempts[k].sent) =>
    Len(errors) =
      Cardinality({ r \in DOMAIN results : results[r].failed })
      + (IF abortAt \in {"loading", "launching", "connecting", "persisting", "writing"}
         THEN 1 ELSE 0)

\* C21: a process that ends without having received a signal exits with
\* code 1 when a CRITICAL error was recorded in the run and with code 0
\* otherwise.
C21_ExitCodeByCriticalErrors ==
  (exited /\ signals = <<>>) =>
    exitCode = (IF \E k \in DOMAIN errors : errors[k].severity = "CRITICAL"
                THEN ExitFailure ELSE ExitSuccess)

C21_Witness ==
  /\ exited /\ signals = <<>>
  /\ exitCode = ExitFailure
  /\ critAt # 0
  /\ \E r \in DOMAIN results : results[r].hasChanged

\* C22: the configuration write is atomic; in particular, when the process
\* has ended (also after a failed or an interrupted state update) the file
\* holds either the complete target set as loaded or the complete updated one.
C22_FileCompleteAtExit ==
  exited =>
    \/ file = LoadedTargets
    \/ file = updateConfigValues(LoadedTargets, changes)

\* C23: a successful persist keeps the shape of the file (array or object) and
\* its notification channel, and changes current_value only where a change
\* record with hasChanged names the entry.
C23_PersistKeepsStructure ==
  (call0.fn = "updateAndPersist" /\ rets # <<>> /\ call.config # call0.config) =>
    /\ call.config.shape = call0.config.shape
    /\ call.config.slack_webhook = call0.config.slack_webhook
    /\ DOMAIN call.config.targets = DOMAIN call0.config.targets
    /\ \A k \in DOMAIN call0.config.targets :
         \/ call.config.targets[k] = call0.config.targets[k]
         \/ /\ call.config.targets[k].url = call0.config.targets[k].url
            /\ call.config.targets[k].css_selector = call0.config.targets[k].css_selector
            /\ \E c \in DOMAIN call0.changes :
                 /\ call0.changes[c].hasChanged
                 /\ call0.changes[c].entry # NoEntry
                 /\ call0.changes[c].entry.url = call0.config.targets[k].url
                 /\ call0.changes[c].entry.css_selector = call0.config.targets[k].css_selector

\* C24: of two overlapping runs at most one owns the browser on the debug
\* port; the other one never connects to the owner's browser, never
\* terminates it and never deletes files it works with.
C24_EnvironmentExclusivelyOwned ==
  /\ harmed = {}
  /\ \A r \in DOMAIN connectedTo : connectedTo[r] \in {0, r}
  /\ \A r \in DOMAIN lpc :
       (portOwner # 0 /\ portOwner # r) => lpc[r] \notin {"ready", "connected"}

\* C25 (as stated): targets are processed one after the other with at most one
\* page open at any time; the page of a target is closed before the page of
\* the next target is opened.
C25_AtMostOnePageOpen ==
  /\ Cardinality(openPages) <= 1
  /\ tpc = "navigating" => openPages = {page}

\* C25 (amended): at most one page handle is held at any time: closePage has
\* returned for a target's page, which is then out of the tracking set,
\* before the next page is acquired; a page other than the current one is
\* open only if closing it failed.
C25_AtMostOnePageHeld ==
  /\ Cardinality(pages) <= 1
  /\ pages \subseteq {page}
  /\ tpc \in {"next", "stopped"} => pages = {}
  /\ openPages \ {page} \subseteq closeFailed

C25_Witness ==
  /\ tpc = "navigating" /\ tdone >= 1
  /\ pages = {page} /\ openPages = {page} /\ page = tdone + 1

\* C26: processMonitoringTarget completes the way its try block did, whether
\* or not closing the page failed: a result is returned as it was, an error
\* of createPage or navigateAndExtract is thrown on as it was.
C26_CleanupNeverChangesOutcome ==
  /\ Len(outcomes) <= Len(tried)
  /\ \A k \in DOMAIN outcomes : outcomes[k] = tried[k]

C26_Witness ==
  \E k, j \in DOMAIN outcomes :
    /\ k \in closeFailed /\ ~outcomes[k].threw
    /\ j \in closeFailed /\ outcomes[j].threw
    /\ outcomes[j].error = handleNavigationError("NetErr", urls[j])

\* C27: whenever execute() has returned or thrown, session.endTime is set,
\* and endTime is set only once the workflow's own cleanup() call is over.
C27_SealedOnEveryExitAfterCleanup ==
  /\ Settled => endTime
  /\ endTime => (pc = "done" /\ cleanupCalls >= 1)

C27_Witness ==
  /\ outcome = "rejected" /\ endTime /\ pc = "done" /\ cleanupCalls >= 1
  /\ chrome = "exited" /\ signals = <<>>

\* C28: the classification is that of the first rule, in the order
\* configuration, launch, connection, navigation, extraction, notification,
\* durable write, that the message text (with context.type for "not found")
\* matches; navigation failures are HIGH and carry the per-target type when
\* context.operation is processMonitoringTarget; a message no rule matches is
\* a generic HIGH error.
C28_FirstMatchingRuleInOrder ==
  (call0.fn = "categorizeError" /\ rets # <<>>) =>
    LET m == call0.message
        c == call0.context
        has(words) == words \cap m # {}
        hit == << \/ has({"Configuration", "Invalid JSON", "Missing required field",
                          "Config load failed"})
                  \/ ("not found" \in m /\ c.type = "config"),
                  "Chrome" \in m /\ has({"launch", "port", "debug"}),
                  has({"connect", "CDP", "browser"}),
                  has({"Navigation", "timeout", "net::ERR", "load"}),
                  has({"selector", "element", "textContent", "extract"}),
                  has({"Slack", "webhook", "notification"}),
                  has({"persist", "write", "permission", "EACCES"}),
                  TRUE >>
        kind == << <<"CONFIG_ERROR", "CRITICAL">>,
                   <<"CHROME_ERROR", "CRITICAL">>,
                   <<"BROWSER_ERROR", "CRITICAL">>,
                   <<IF c.operation = "processMonitoringTarget"
                     THEN "TARGET_ERROR" ELSE "PAGE_ERROR", "HIGH">>,
                   <<"EXTRACTION_ERROR", "MEDIUM">>,
                   <<"NOTIFICATION_ERROR", "MEDIUM">>,
                   <<"PERSISTENCE_ERROR", "CRITICAL">>,
                   <<"WORKFLOW_ERROR", "HIGH">> >>
        first == CHOOSE k \in 1 .. 8 : hit[k] /\ \A j \in 1 .. (k - 1) : ~hit[j]
    IN /\ rets[1].type = kind[first][1]
       /\ rets[1].severity = kind[first][2]

C28_Witness ==
  /\ call0.fn = "categorizeError" /\ rets # <<>>
  /\ call0.message = {"timeout", "browser", "persist"}
  /\ call0.context.operation = "processMonitoringTarget"
  /\ rets[1].type = "BROWSER_ERROR" /\ rets[1].severity = "CRITICAL"

\* C29: whatever rule matched, the classification carries at least one
\* remediation suggestion.
C29_SuggestionsNeverEmpty ==
  (call0.fn = "categorizeError" /\ rets # <<>>) => rets[1].suggestions # <<>>

\* C30: updateConfigValues returns equal results for equal arguments, leaves
\* the targets it was given as they were, and a change record whose url and
\* selector are those of no target makes no difference to the result.
C30_ComputeUpdatedPureIdempotent ==
  (call0.fn = "updateConfigValues" /\ rets # <<>>) =>
    /\ \A a, b \in DOMAIN rets : rets[a] = rets[b]
    /\ call.targets = call0.targets
    /\ LET matched(ch) ==
             /\ ch.entry # NoEntry
             /\ \E k \in DOMAIN call0.targets :
                  /\ call0.targets[k].url = ch.entry.url
                  /\ call0.targets[k].css_selector = ch.entry.css_selector
           kept == SelectSeq(call0.changes, matched)
       IN rets[1] = updateConfigValuesByKey(call0.targets, kept)

\* C31: updateConfigValues returns as many entries as it was given, in the
\* same order; an entry whose url and selector are those of a change record
\* with hasChanged has that record's newValue as current_value, and every
\* other entry is returned as it was.
C31_ExactlyMatchingEntriesUpdated ==
  (call0.fn = "updateConfigValues" /\ rets # <<>>) =>
    LET ts == call0.targets
        out == rets[1]
        hits(k) == { c \in DOMAIN call0.changes :
                       /\ call0.changes[c].hasChanged
                       /\ call0.changes[c].entry # NoEntry
                       /\ call0.changes[c].entry.url = ts[k].url
                       /\ call0.changes[c].entry.css_selector = ts[k].css_selector }
    IN /\ DOMAIN out = DOMAIN ts
       /\ \A k \in DOMAIN ts :
            /\ out[k].url = ts[k].url
            /\ out[k].css_selector = ts[k].css_selector
            /\ IF hits(k) = {}
               THEN out[k] = ts[k]
               ELSE \E c \in hits(k) : out[k].current_value = call0.changes[c].newValue

\* C32: detectChange answers "unchanged" exactly when both values are missing,
\* or neither is and the two are the same text once turned into strings and
\* stripped of the blanks around them; one missing value alone is a change,
\* also against the empty string.
C32_UnchangedIffBothNullOrEqualTrimmed ==
  (call0.fn = "detectChange" /\ rets # <<>>) =>
    LET a == call0.currentValue
        b == call0.storedValue
        text(v) == IF v \in Numbers THEN Tail(v) ELSE v
        core(v) == LET t == text(v)
                       solid == { k \in DOMAIN t : t[k] # " " }
                       lo == CHOOSE k \in solid : \A j \in solid : k <= j
                       hi == CHOOSE k \in solid : \A j \in solid : j <= k
                   IN IF solid = {} THEN <<>> ELSE SubSeq(t, lo, hi)
    IN rets[1] = ~ \/ a = NULL /\ b = NULL
                   \/ a # NULL /\ b # NULL /\ core(a) = core(b)

C32_Witness ==
  /\ call0.fn = "detectChange" /\ rets = <<FALSE>>
  /\ call0.currentValue = <<"number", "1">>
  /\ call0.storedValue = <<" ", "1">>

\* C33: after a connect() that failed, and after a disconnect() that returned
\* or threw, the controller is clean: isConnectedToBrowser() is false, browser
\* and context are null, no page is tracked; disconnect() on a clean
\* controller returns.
C33_CleanAfterFailedConnectAndDisconnect ==
  LET clean(c) == /\ ~bcIsConnectedToBrowser(c)
                  /\ c.browser = "null" /\ c.context = "null" /\ c.pages = 0
  IN /\ (lastCall.op = "connect" /\ lastCall.result = "rejected") => clean(bc)
     /\ lastCall.op = "disconnect" => clean(bc)
     /\ (lastCall.op = "disconnect" /\ clean(lastCall.before)) => lastCall.result = "returned"

\* C38: a connect() rejected because the controller is already connected
\* changes nothing: the controller is still connected, with the browser,
\* context and pages it had.
C38_RejectedConnectKeepsConnection ==
  (lastCall.op = "connect" /\ lastCall.why = "already") =>
    /\ bc = lastCall.before
    /\ bcIsConnectedToBrowser(lastCall.before) => bcIsConnectedToBrowser(bc)

\* C34: every run finishes: execute() settles, or the signal handler ends the
\* process, also when Chrome does not exit on the SIGTERM of terminate().
C34_EveryRunFinishes == <>(Settled \/ exited)

\* C35: once a shutdown signal has been received the run starts nothing new:
\* no processMonitoringTarget call, no notification, no state update and no
\* write to the configuration file.
C35_NoNewWorkAfterSignal ==
  [][signals # <<>> =>
       /\ attempted' = attempted
       /\ inFlight' => inFlight
       /\ persistCalls' = persistCalls
       /\ file' = file]_vars

C37_LaunchFailureIsRejection ==
  \A r \in Runs : lpc[r] # "uncaught"

\* C39: session.errors has as many entries as the workflow's error handler
\* has recorded, with the same severities in the same order, and the critical,
\* high, medium and low counts of the summary add up to its total.
C39_SessionErrorsMatchHandler ==
  LET errorStats == getErrorStats(sessionErrors)
  IN /\ Len(errors) = errorStats.totalErrors
     /\ \A k \in DOMAIN errors : errors[k].severity = sessionErrors[k]
     /\ errorStats.criticalErrors + errorStats.highErrors
          + errorStats.mediumErrors + errorStats.lowErrors = Len(errors)

\* a target failure the loop went past, then a failed state update recorded by
\* the persistence catch and by execute()'s catch
C39_Witness ==
  /\ Len(errors) = 3
  /\ errors[1].stage = "target"
  /\ errors[1].severity # "CRITICAL"
  /\ errors[2].stage = "persistence"
  /\ errors[3].stage = "execute"
  /\ getErrorStats(sessionErrors).totalErrors = 3

====
